---- MODULE Spec2Model ----
(***************************************************************************)
(* A model of nvtt::TexImage (src/nvtt/TexImage.cpp): the copy-on-write    *)
(* texture handle, its shared Private payload, and the operations on it.   *)
(*                                                                         *)
(* Pixel values are integers in units of 1/255: the float 1.0 is 255, the  *)
(* float 255.0 is 65025, and byte b scaled by 1/255 is b.                  *)
(***************************************************************************)
EXTENDS Integers, Sequences, FiniteSets, TLC

VARIABLES heap, m, fault, leaked, stale, last, scn, mip, pin, pout

vars == <<heap, m, fault, leaked, stale, last, scn, mip, pin, pout>>
aux == <<scn, mip, pin, pout>>

(***************************************************************************)
(* Bounds of the model.                                                    *)
(***************************************************************************)
MaxPayloads == 2
MaxDim == 2
MaxMipDim == 6
MaxSide == 9
MaxV == 40

(***************************************************************************)
(* Enumerations of the public interface.                                   *)
(***************************************************************************)
Handles == {"a", "b", "c"}
PIds == 1..MaxPayloads

TextureTypes == {"TextureType_2D", "TextureType_Cube"}
WrapModes == {"WrapMode_Clamp", "WrapMode_Repeat", "WrapMode_Mirror"}
AlphaModes == {"AlphaMode_None", "AlphaMode_Transparency"}
ResizeFilters == {"ResizeFilter_Box", "ResizeFilter_Triangle",
                  "ResizeFilter_Kaiser", "ResizeFilter_Mitchell"}
MipmapFilters == {"MipmapFilter_Box", "MipmapFilter_Triangle", "MipmapFilter_Kaiser"}
RoundModes == {"RoundMode_None", "RoundMode_ToNextPowerOfTwo",
               "RoundMode_ToNearestPowerOfTwo", "RoundMode_ToPreviousPowerOfTwo"}

Max(a, b) == IF a >= b THEN a ELSE b

(***************************************************************************)
(* Power-of-two helpers and the mipmap count.                              *)
(***************************************************************************)
RECURSIVE Pow2From(_, _)
Pow2From(p, v) == IF p >= v THEN p ELSE Pow2From(2 * p, v)

\* nv::nextPowerOfTwo: the smallest power of two >= v (0 for v = 0).
nextPowerOfTwo(v) == IF v = 0 THEN 0 ELSE Pow2From(1, v)

previousPowerOfTwo(v) == nextPowerOfTwo(v + 1) \div 2

nearestPowerOfTwo_tiePrevious(v) ==
    LET np2 == nextPowerOfTwo(v)
        pp2 == previousPowerOfTwo(v)
    IN  IF np2 - v < v - pp2 THEN np2 ELSE pp2

nearestPowerOfTwo(v) ==
    LET np2 == nextPowerOfTwo(v)
        pp2 == previousPowerOfTwo(v)
    IN  IF np2 - v <= v - pp2 THEN np2 ELSE pp2

RECURSIVE countMipmapsLoop(_, _, _, _)
countMipmapsLoop(w, h, d, mipmap) ==
    IF w # 1 \/ h # 1 \/ d # 1
    THEN countMipmapsLoop(Max(1, w \div 2), Max(1, h \div 2), Max(1, d \div 2), mipmap + 1)
    ELSE mipmap + 1

countMipmaps(w, h, d) == countMipmapsLoop(w, h, d, 0)

(***************************************************************************)
(* Float images: an absent face is NULL; a populated one has a width, a    *)
(* height and four channels of w*h values each.                            *)
(***************************************************************************)
NULL == [null |-> TRUE]

FloatImage(w, h, ch) == [null |-> FALSE, w |-> w, h |-> h, ch |-> ch]

Populated(img) == ~img.null

(***************************************************************************)
(* The shared payload (TexImage::Private) and its holder count.            *)
(***************************************************************************)
FreedPrivate ==
    [live |-> FALSE, refCount |-> 0, type |-> "TextureType_2D",
     wrapMode |-> "WrapMode_Mirror", alphaMode |-> "AlphaMode_None",
     isNormalMap |-> FALSE, imageArray |-> <<>>]

\* new TexImage::Private(): holder count 0, one unpopulated face slot.
NewPrivate ==
    [live |-> TRUE, refCount |-> 0, type |-> "TextureType_2D",
     wrapMode |-> "WrapMode_Mirror", alphaMode |-> "AlphaMode_None",
     isNormalMap |-> FALSE, imageArray |-> <<NULL>>]

\* new TexImage::Private(*p): metadata and every face image copied, count 0.
ClonePrivate(p) == [p EXCEPT !.refCount = 0]

FreePids == {p \in PIds : ~heap[p].live}
NewPid == CHOOSE p \in FreePids : \A q \in FreePids : p <= q

Valid(h) == m[h] # 0 /\ heap[m[h]].live
Dangling(h) == m[h] # 0 /\ ~heap[m[h]].live
P(h) == heap[m[h]]

addRef(hp, p) == [hp EXCEPT ![p].refCount = @ + 1]

\* RefCounted::release: decrement, delete the payload when the count reaches 0.
\* A payload whose count goes below 0 is never deleted (Leaks); it has no
\* holder left, and its slot is handed back to the allocator of the model.
release(hp, p) ==
    IF hp[p].refCount - 1 <= 0
    THEN [hp EXCEPT ![p] = FreedPrivate]
    ELSE [hp EXCEPT ![p].refCount = @ - 1]

\* A release that takes the count below 0 frees nothing: the payload is lost.
Leaks(hp, p) == hp[p].refCount - 1 < 0

\* Some handle points at a payload that has been deleted.
SomeDangling(hp, mm) == \E h \in Handles : mm[h] # 0 /\ ~hp[mm[h]].live

\* The call made last: its name, the handle, what it returned ("true",
\* "false", "void", or "int" with the number in val) and on which path.
CallVal(op, h, ret, why, val) ==
    [op |-> op, h |-> h, ret |-> ret, why |-> why, val |-> val]

Call(op, h, ret, why) == CallVal(op, h, ret, why, 0)

(***************************************************************************)
(* Handle construction, copy, assignment, destruction.                     *)
(***************************************************************************)
TexImage(h) ==
    /\ ~fault
    /\ m[h] = 0
    /\ FreePids # {}
    /\ heap' = [heap EXCEPT ![NewPid] = NewPrivate]
    /\ m' = [m EXCEPT ![h] = NewPid]
    /\ last' = Call("TexImage", h, "void", "new")
    /\ UNCHANGED <<fault, leaked, stale>>

TexImageCopy(h, tex) ==
    /\ ~fault
    /\ m[h] = 0
    /\ Valid(tex)
    /\ heap' = addRef(heap, m[tex])
    /\ m' = [m EXCEPT ![h] = m[tex]]
    /\ last' = Call("TexImageCopy", h, "void", "copy")
    /\ UNCHANGED <<fault, leaked, stale>>

Destroy(h) ==
    /\ ~fault
    /\ Valid(h)
    /\ heap' = release(heap, m[h])
    /\ leaked' = (leaked \/ Leaks(heap, m[h]))
    /\ m' = [m EXCEPT ![h] = 0]
    /\ stale' = (stale \/ SomeDangling(heap', m'))
    /\ last' = Call("Destroy", h, "void", "release")
    /\ UNCHANGED fault

Assign(h, tex) ==
    /\ ~fault
    /\ Valid(h)
    /\ Valid(tex)
    /\ LET hp1 == addRef(heap, m[tex])
       IN  /\ heap' = release(hp1, m[h])
           /\ leaked' = (leaked \/ Leaks(hp1, m[h]))
    /\ m' = [m EXCEPT ![h] = m[tex]]
    /\ stale' = (stale \/ SomeDangling(heap', m'))
    /\ last' = Call("Assign", h, "void", "assign")
    /\ UNCHANGED fault

\* Any use of a handle whose payload has been freed is undefined behaviour;
\* the outcome modelled here is the crash.  (The other outcome, the freed
\* memory being reused by a later allocation, arises from NewPid.)
UseAfterFree(h) ==
    /\ ~fault
    /\ Dangling(h)
    /\ fault' = TRUE
    /\ last' = Call("UseAfterFree", h, "void", "fault")
    /\ UNCHANGED <<heap, m, leaked, stale>>

(***************************************************************************)
(* detach(): the copy-on-write step.                                       *)
(***************************************************************************)
Shared(h) == P(h).refCount > 1

CanDetach(h) == Shared(h) => FreePids # {}

\* The payload the handle points at after detach().
DetachedPid(h) == IF Shared(h) THEN NewPid ELSE m[h]

DetachHeap(h) ==
    IF Shared(h)
    THEN [addRef([heap EXCEPT ![m[h]].refCount = @ - 1, ![NewPid] = ClonePrivate(P(h))],
                 NewPid) EXCEPT ![NewPid].live = TRUE]
    ELSE heap

DetachM(h) == [m EXCEPT ![h] = DetachedPid(h)]

(***************************************************************************)
(* Metadata setters.                                                       *)
(***************************************************************************)
Unchanged(op, h, ret, why) ==
    /\ last' = Call(op, h, ret, why)
    /\ UNCHANGED <<heap, m, fault, leaked, stale>>

FaceCountOf(type) == IF type = "TextureType_2D" THEN 1 ELSE 6

\* Array::resize(count, NULL): truncate, or pad with NULL.
ResizeArray(arr, count) ==
    [i \in 1..count |-> IF i <= Len(arr) THEN arr[i] ELSE NULL]

setTextureType(h, type) ==
    /\ ~fault /\ Valid(h)
    /\ IF P(h).type # type
       THEN /\ CanDetach(h)
            /\ heap' = [DetachHeap(h) EXCEPT
                          ![DetachedPid(h)].type = type,
                          ![DetachedPid(h)].imageArray = ResizeArray(@, FaceCountOf(type))]
            /\ m' = DetachM(h)
            /\ last' = Call("setTextureType", h, "void", "set")
            /\ UNCHANGED <<fault, leaked, stale>>
       ELSE Unchanged("setTextureType", h, "void", "same")

setWrapMode(h, wrapMode) ==
    /\ ~fault /\ Valid(h)
    /\ IF P(h).wrapMode # wrapMode
       THEN /\ CanDetach(h)
            /\ heap' = [DetachHeap(h) EXCEPT ![DetachedPid(h)].wrapMode = wrapMode]
            /\ m' = DetachM(h)
            /\ last' = Call("setWrapMode", h, "void", "set")
            /\ UNCHANGED <<fault, leaked, stale>>
       ELSE Unchanged("setWrapMode", h, "void", "same")

setAlphaMode(h, alphaMode) ==
    /\ ~fault /\ Valid(h)
    /\ IF P(h).alphaMode # alphaMode
       THEN /\ CanDetach(h)
            /\ heap' = [DetachHeap(h) EXCEPT ![DetachedPid(h)].alphaMode = alphaMode]
            /\ m' = DetachM(h)
            /\ last' = Call("setAlphaMode", h, "void", "set")
            /\ UNCHANGED <<fault, leaked, stale>>
       ELSE Unchanged("setAlphaMode", h, "void", "same")

setNormalMap(h, isNormalMap) ==
    /\ ~fault /\ Valid(h)
    /\ IF P(h).isNormalMap # isNormalMap
       THEN /\ CanDetach(h)
            /\ heap' = [DetachHeap(h) EXCEPT ![DetachedPid(h)].isNormalMap = isNormalMap]
            /\ m' = DetachM(h)
            /\ last' = Call("setNormalMap", h, "void", "set")
            /\ UNCHANGED <<fault, leaked, stale>>
       ELSE Unchanged("setNormalMap", h, "void", "same")

(***************************************************************************)
(* FloatImage operations used by the container (nvimage).                  *)
(***************************************************************************)
Channels == 0..3

\* FloatImage::resize / downSample: the kernels are out of scope; the result
\* has the requested size and samples the source at the scaled position.
Resample(img, w, h) ==
    FloatImage(w, h,
        [c \in 1..4 |->
            [k \in 1..(w * h) |->
                LET x == (k - 1) % w
                    y == (k - 1) \div w
                    sx == (x * img.w) \div w
                    sy == (y * img.h) \div h
                IN  img.ch[c][sy * img.w + sx + 1]]])

downSample(img) == Resample(img, Max(1, img.w \div 2), Max(1, img.h \div 2))

RECURSIVE ISqrtBetween(_, _, _)
ISqrtBetween(lo, hi, n) ==
    IF lo >= hi THEN lo
    ELSE LET mid == (lo + hi + 1) \div 2
         IN  IF mid * mid <= n THEN ISqrtBetween(mid, hi, n)
                               ELSE ISqrtBetween(lo, mid - 1, n)

\* pow(v, gamma) and pow(v, 1/gamma) on values in units of 1/255.
PowLinear(v, gamma) == IF gamma = 1 THEN v ELSE (v * v) \div 255
PowGamma(v, gamma) == IF gamma = 1 THEN v ELSE ISqrtBetween(0, Max(v, 255), v * 255)

\* FloatImage::toLinear(0, 3, gamma) / toGamma(0, 3, gamma): channels 0..2.
ImgToLinear(img, gamma) ==
    [img EXCEPT !.ch = [c \in 1..4 |->
        IF c <= 3 THEN [k \in 1..Len(img.ch[c]) |-> PowLinear(img.ch[c][k], gamma)]
                  ELSE img.ch[c]]]

ImgToGamma(img, gamma) ==
    [img EXCEPT !.ch = [c \in 1..4 |->
        IF c <= 3 THEN [k \in 1..Len(img.ch[c]) |-> PowGamma(img.ch[c][k], gamma)]
                  ELSE img.ch[c]]]

\* FloatImage::swizzle(0, r, g, b, a): channel c takes the old channel sw[c].
ImgSwizzle(img, sw) == [img EXCEPT !.ch = [c \in 1..4 |-> img.ch[sw[c] + 1]]]

\* FloatImage::scaleBias(channel, 1, scale, bias).
ImgScaleBias(img, channel, scale, bias) ==
    [img EXCEPT !.ch[channel + 1] =
        [k \in 1..Len(img.ch[channel + 1]) |-> img.ch[channel + 1][k] * scale + bias]]

\* The loops over the faces: foreach (i, m->imageArray), NULL faces skipped.
FacesResized(arr, w, h) ==
    [i \in 1..Len(arr) |-> IF Populated(arr[i]) THEN Resample(arr[i], w, h) ELSE arr[i]]

FacesDownSampled(arr) ==
    [i \in 1..Len(arr) |-> IF Populated(arr[i]) THEN downSample(arr[i]) ELSE arr[i]]

FacesToLinear(arr, gamma) ==
    [i \in 1..Len(arr) |-> IF Populated(arr[i]) THEN ImgToLinear(arr[i], gamma) ELSE arr[i]]

FacesToGamma(arr, gamma) ==
    [i \in 1..Len(arr) |-> IF Populated(arr[i]) THEN ImgToGamma(arr[i], gamma) ELSE arr[i]]

FacesSwizzled(arr, sw) ==
    [i \in 1..Len(arr) |-> IF Populated(arr[i]) THEN ImgSwizzle(arr[i], sw) ELSE arr[i]]

FacesScaleBiased(arr, channel, scale, bias) ==
    [i \in 1..Len(arr) |->
        IF Populated(arr[i]) THEN ImgScaleBias(arr[i], channel, scale, bias) ELSE arr[i]]

(***************************************************************************)
(* Reading the size of face 0.  When the slot holds NULL the read is       *)
(* undefined behaviour: the call crashes, or it reads some value.          *)
(***************************************************************************)
GarbageDims == {<<gw, gh>> : gw \in 0..1, gh \in 0..1}

ReadDims(img) == IF Populated(img) THEN {<<img.w, img.h>>} ELSE GarbageDims

NullDeref(op, h) ==
    /\ fault' = TRUE
    /\ last' = Call(op, h, "void", "fault")
    /\ UNCHANGED <<heap, m, leaked, stale>>

\* A const member that returns a number leaves every payload as it is.
Returns(op, h, why, val) ==
    /\ last' = CallVal(op, h, "int", why, val)
    /\ UNCHANGED <<heap, m, fault, leaked, stale>>

(***************************************************************************)
(* width, height, countMipmaps.                                            *)
(***************************************************************************)
width(h) ==
    /\ ~fault /\ Valid(h)
    /\ IF Len(P(h).imageArray) > 0
       THEN \/ /\ ~Populated(P(h).imageArray[1])
               /\ NullDeref("width", h)
            \/ \E d \in ReadDims(P(h).imageArray[1]) :
                  Returns("width", h,
                          IF Populated(P(h).imageArray[1]) THEN "read" ELSE "garbage", d[1])
       ELSE Returns("width", h, "nofaces", 0)

height(h) ==
    /\ ~fault /\ Valid(h)
    /\ IF Len(P(h).imageArray) > 0
       THEN \/ /\ ~Populated(P(h).imageArray[1])
               /\ NullDeref("height", h)
            \/ \E d \in ReadDims(P(h).imageArray[1]) :
                  Returns("height", h,
                          IF Populated(P(h).imageArray[1]) THEN "read" ELSE "garbage", d[2])
       ELSE Returns("height", h, "nofaces", 0)

\* TexImage::countMipmaps(): ::countMipmaps(width(), height(), depth()).
TexImage_countMipmaps(h) ==
    /\ ~fault /\ Valid(h)
    /\ IF Len(P(h).imageArray) > 0
       THEN \/ /\ ~Populated(P(h).imageArray[1])
               /\ NullDeref("countMipmaps", h)
            \/ \E d \in ReadDims(P(h).imageArray[1]) :
                  Returns("countMipmaps", h,
                          IF Populated(P(h).imageArray[1]) THEN "read" ELSE "garbage",
                          countMipmaps(d[1], d[2], 1))
       ELSE Returns("countMipmaps", h, "nofaces", countMipmaps(0, 0, 1))

(***************************************************************************)
(* load.                                                                   *)
(***************************************************************************)
load(h, img) ==
    /\ ~fault /\ Valid(h)
    /\ IF img = NULL
       THEN Unchanged("load", h, "false", "nofile")
       ELSE /\ CanDetach(h)
            /\ heap' = [DetachHeap(h) EXCEPT ![DetachedPid(h)].imageArray = <<img>>]
            /\ m' = DetachM(h)
            /\ last' = Call("load", h, "true", "loaded")
            /\ UNCHANGED <<fault, leaked, stale>>

(***************************************************************************)
(* resize, both overloads.                                                 *)
(***************************************************************************)
\* TexImage.cpp:533, the early return of resize(w, h, filter).
ResizeSameSize(d, w, hh) == w = d[1] /\ hh = d[2]

\* TexImage.cpp:536-540: a cube's faces are resized to w x w.
ResizeHeight(type, w, hh) == IF type = "TextureType_Cube" THEN w ELSE hh

ResizeStep(op, h, w, hh, filter) ==
    \/ /\ Len(P(h).imageArray) > 0 /\ ~Populated(P(h).imageArray[1])
       /\ NullDeref(op, h)
    \/ \E d \in (IF Len(P(h).imageArray) > 0 THEN ReadDims(P(h).imageArray[1])
                                              ELSE {<<0, 0>>}) :
          IF Len(P(h).imageArray) > 0 /\ ResizeSameSize(d, w, hh)
          THEN Unchanged(op, h, "void", "same")
          ELSE /\ CanDetach(h)
               /\ heap' = [DetachHeap(h) EXCEPT
                              ![DetachedPid(h)].imageArray =
                                  FacesResized(@, w, ResizeHeight(P(h).type, w, hh))]
               /\ m' = DetachM(h)
               /\ last' = Call(op, h, "void", "resized")
               /\ UNCHANGED <<fault, leaked, stale>>

resize(h, w, hh, filter) ==
    /\ ~fault /\ Valid(h)
    /\ ResizeStep("resize", h, w, hh, filter)

EffectiveExtent_asGiven(maxExtent, roundMode) == maxExtent

\* TexImage.cpp:617-621.
EffectiveExtent(maxExtent, roundMode) ==
    IF roundMode # "RoundMode_None" THEN previousPowerOfTwo(maxExtent) ELSE maxExtent

\* TexImage.cpp:623-629: scale extents without changing aspect ratio.
ScaleExtents(d, maxExtent) ==
    LET maxwh == Max(d[1], d[2])
    IN  IF maxExtent # 0 /\ maxwh > maxExtent
        THEN <<Max((d[1] * maxExtent) \div maxwh, 1), Max((d[2] * maxExtent) \div maxwh, 1)>>
        ELSE d

\* TexImage.cpp:631-646: round to power of two.
RoundExtents(d, roundMode) ==
    IF roundMode = "RoundMode_ToNextPowerOfTwo"
    THEN <<nextPowerOfTwo(d[1]), nextPowerOfTwo(d[2])>>
    ELSE IF roundMode = "RoundMode_ToNearestPowerOfTwo"
    THEN <<nearestPowerOfTwo(d[1]), nearestPowerOfTwo(d[2])>>
    ELSE IF roundMode = "RoundMode_ToPreviousPowerOfTwo"
    THEN <<previousPowerOfTwo(d[1]), previousPowerOfTwo(d[2])>>
    ELSE d

\* TexImage.cpp:648-652: make sure cube faces are square.
SquareExtents(d, type) ==
    IF type = "TextureType_Cube" THEN <<Max(d[1], d[2]), Max(d[1], d[2])>> ELSE d

\* The (w, h) that resize(maxExtent, roundMode, filter) hands to resize(w, h, filter).
ResizeTarget(d, type, maxExtent, roundMode) ==
    SquareExtents(
        RoundExtents(ScaleExtents(d, EffectiveExtent(maxExtent, roundMode)), roundMode),
        type)

resize_maxExtent(h, maxExtent, roundMode, filter) ==
    /\ ~fault /\ Valid(h)
    /\ IF Len(P(h).imageArray) > 0
       THEN \/ /\ ~Populated(P(h).imageArray[1])
               /\ NullDeref("resize_maxExtent", h)
            \/ \E d \in ReadDims(P(h).imageArray[1]) :
                  /\ d[1] > 0 /\ d[2] > 0
                  /\ LET t == ResizeTarget(d, P(h).type, maxExtent, roundMode)
                     IN  ResizeStep("resize_maxExtent", h, t[1], t[2], filter)
       ELSE Unchanged("resize_maxExtent", h, "void", "nofaces")

(***************************************************************************)
(* buildNextMipmap.                                                        *)
(***************************************************************************)
MipmapDone_either(d) == d[1] = 1 \/ d[2] = 1

\* TexImage.cpp:668-671.
MipmapDone(d) == d[1] = 1 /\ d[2] = 1

buildNextMipmap(h, filter) ==
    /\ ~fault /\ Valid(h)
    /\ \/ /\ Len(P(h).imageArray) > 0 /\ ~Populated(P(h).imageArray[1])
          /\ NullDeref("buildNextMipmap", h)
       \/ \E d \in (IF Len(P(h).imageArray) > 0 THEN ReadDims(P(h).imageArray[1])
                                                 ELSE {<<0, 0>>}) :
             IF Len(P(h).imageArray) > 0 /\ MipmapDone(d)
             THEN Unchanged("buildNextMipmap", h, "false", "1x1")
             ELSE /\ CanDetach(h)
                  /\ heap' = [DetachHeap(h) EXCEPT
                                ![DetachedPid(h)].imageArray = FacesDownSampled(@)]
                  /\ m' = DetachM(h)
                  /\ last' = Call("buildNextMipmap", h, "true", "built")
                  /\ UNCHANGED <<fault, leaked, stale>>

(***************************************************************************)
(* Colour transforms.                                                      *)
(***************************************************************************)
\* detach(), then the faces replaced by arr.
Transform(op, h, arr) ==
    /\ CanDetach(h)
    /\ heap' = [DetachHeap(h) EXCEPT ![DetachedPid(h)].imageArray = arr]
    /\ m' = DetachM(h)
    /\ last' = Call(op, h, "void", "applied")
    /\ UNCHANGED <<fault, leaked, stale>>

GammaIsOne_never(gamma) == FALSE

\* equal(gamma, 1.0f)
GammaIsOne(gamma) == gamma = 1

toLinear(h, gamma) ==
    /\ ~fault /\ Valid(h)
    /\ IF GammaIsOne(gamma)
       THEN Unchanged("toLinear", h, "void", "same")
       ELSE Transform("toLinear", h, FacesToLinear(P(h).imageArray, gamma))

toGamma(h, gamma) ==
    /\ ~fault /\ Valid(h)
    /\ IF GammaIsOne(gamma)
       THEN Unchanged("toGamma", h, "void", "same")
       ELSE Transform("toGamma", h, FacesToGamma(P(h).imageArray, gamma))

swizzle(h, sw) ==
    /\ ~fault /\ Valid(h)
    /\ IF sw = <<0, 1, 2, 3>>
       THEN Unchanged("swizzle", h, "void", "same")
       ELSE Transform("swizzle", h, FacesSwizzled(P(h).imageArray, sw))

scaleBias(h, channel, scale, bias) ==
    /\ ~fault /\ Valid(h)
    /\ IF scale = 1 /\ bias = 0
       THEN Unchanged("scaleBias", h, "void", "same")
       ELSE Transform("scaleBias", h,
                      FacesScaleBiased(P(h).imageArray, channel, scale, bias))

(***************************************************************************)
(* Raw ingestion: the three setImage2D overloads.                          *)
(***************************************************************************)
InputFormats == {"InputFormat_BGRA_8UB", "InputFormat_RGBA_32F"}
Formats == {"Format_RGB", "Format_BC1", "Format_BC2", "Format_BC3", "Format_BC4"}
Decoders == {"Decoder_Reference", "Decoder_NV5x"}
Patterns == {"red", "stripes"}

\* The caller's buffers.  Color32 is laid out b, g, r, a.
Color32(p, i) ==
    IF p = "red" THEN [b |-> 1, g |-> 0, r |-> 255, a |-> 255]
                 ELSE [b |-> 255, g |-> 1, r |-> i % 2, a |-> 0]

Colors(p, count) == [i \in 1..count |-> Color32(p, i - 1)]

\* A float RGBA buffer of 4*count values holding the same colours scaled to [0,1].
Floats(p, count) ==
    [k \in 1..(4 * count) |->
        LET c == Color32(p, (k - 1) \div 4)
            j == (k - 1) % 4
        IN  IF j = 0 THEN c.r ELSE IF j = 1 THEN c.g ELSE IF j = 2 THEN c.b ELSE c.a]

Plane(p, count, field) ==
    [i \in 1..count |->
        LET c == Color32(p, i - 1)
        IN  IF field = "r" THEN c.r ELSE IF field = "g" THEN c.g
            ELSE IF field = "b" THEN c.b ELSE c.a]

\* A value of n/255 is n units; a value of n is 255*n units.
\* TexImage.cpp:336-339: rdst[i] = src[i].r, the byte converted to float as it is.
Unscaled8(byte) == 255 * byte

\* TexImage.cpp:397-400 and 507-510: float(byte) / 255.0f.
Scaled8(byte) == byte

Interleaved(format, w, hh, p) ==
    LET count == w * hh
    IN  IF format = "InputFormat_BGRA_8UB"
        THEN LET src == Colors(p, count)
             IN  FloatImage(w, hh,
                    << [i \in 1..count |-> Unscaled8(src[i].r)],
                       [i \in 1..count |-> Unscaled8(src[i].g)],
                       [i \in 1..count |-> Unscaled8(src[i].b)],
                       [i \in 1..count |-> Unscaled8(src[i].a)] >>)
        ELSE LET src == Floats(p, count)
             IN  FloatImage(w, hh,
                    [c \in 1..4 |-> [i \in 1..count |-> src[4 * (i - 1) + c]]])

Planar(format, w, hh, p) ==
    LET count == w * hh
        F(field) == Plane(p, count, field)
    IN  IF format = "InputFormat_BGRA_8UB"
        THEN FloatImage(w, hh,
                << [i \in 1..count |-> Scaled8(F("r")[i])],
                   [i \in 1..count |-> Scaled8(F("g")[i])],
                   [i \in 1..count |-> Scaled8(F("b")[i])],
                   [i \in 1..count |-> Scaled8(F("a")[i])] >>)
        ELSE FloatImage(w, hh, << F("r"), F("g"), F("b"), F("a") >>)

\* BlockDXT1/3/5::decodeBlock: block number n of the buffer decodes to 16 colours.
decodeBlock(p, n, xx, yy) == Color32(p, n)

Compressed(format, decoder, w, hh, p) ==
    LET bw == (w + 3) \div 4
        Px(k, field) ==
            LET x == (k - 1) % w
                y == (k - 1) \div w
                c == decodeBlock(p, (y \div 4) * bw + (x \div 4), x % 4, y % 4)
            IN  IF field = "r" THEN c.r ELSE IF field = "g" THEN c.g
                ELSE IF field = "b" THEN c.b ELSE c.a
    IN  FloatImage(w, hh,
            << [k \in 1..(w * hh) |-> Scaled8(Px(k, "r"))],
               [k \in 1..(w * hh) |-> Scaled8(Px(k, "g"))],
               [k \in 1..(w * hh) |-> Scaled8(Px(k, "b"))],
               [k \in 1..(w * hh) |-> Scaled8(Px(k, "a"))] >>)

\* TexImage.cpp:309, 369, 429.
BadIndex(h, idx) == idx < 0 \/ idx >= Len(P(h).imageArray)

SizeDiffers_widthOnly(img, w, hh) == img.w # w

\* TexImage.cpp:315, 375, 442.
SizeDiffers(img, w, hh) == img.w # w \/ img.h # hh

\* TexImage.cpp:436.
FormatSupported(format) == format \in {"Format_BC1", "Format_BC2", "Format_BC3"}

\* The face pointer is read before detach() (TexImage.cpp:314-320): the pixels
\* are written to the face of the payload the handle pointed at before it.
WriteFace(op, h, idx, img) ==
    /\ CanDetach(h)
    /\ heap' = [DetachHeap(h) EXCEPT ![m[h]].imageArray[idx + 1] = img]
    /\ m' = DetachM(h)
    /\ last' = Call(op, h, "true", "written")
    /\ UNCHANGED <<fault, leaked, stale>>

\* The size check and what follows it, given the face pointer.  A NULL face
\* is dereferenced: the call crashes at once, or reads some size, is turned
\* away when it differs, and crashes on the first write when it does not.
IngestFace(op, h, w, hh, idx, img) ==
    LET face == P(h).imageArray[idx + 1]
    IN  IF ~Populated(face)
        THEN \/ NullDeref(op, h)
             \/ Unchanged(op, h, "false", "null")
        ELSE IF SizeDiffers(face, w, hh)
        THEN Unchanged(op, h, "false", "size")
        ELSE WriteFace(op, h, idx, img)

setImage2D(h, format, w, hh, idx, p) ==
    /\ ~fault /\ Valid(h)
    /\ IF BadIndex(h, idx)
       THEN Unchanged("setImage2D", h, "false", "index")
       ELSE IngestFace("setImage2D", h, w, hh, idx, Interleaved(format, w, hh, p))

setImage2D_planar(h, format, w, hh, idx, p) ==
    /\ ~fault /\ Valid(h)
    /\ IF BadIndex(h, idx)
       THEN Unchanged("setImage2D_planar", h, "false", "index")
       ELSE IngestFace("setImage2D_planar", h, w, hh, idx, Planar(format, w, hh, p))

setImage2D_compressed(h, format, decoder, w, hh, idx, p) ==
    /\ ~fault /\ Valid(h)
    /\ IF BadIndex(h, idx)
       THEN Unchanged("setImage2D_compressed", h, "false", "index")
       ELSE IF ~FormatSupported(format)
       THEN Unchanged("setImage2D_compressed", h, "false", "format")
       ELSE IngestFace("setImage2D_compressed", h, w, hh, idx,
                       Compressed(format, decoder, w, hh, p))

(***************************************************************************)
(* copyChannel.                                                            *)
(***************************************************************************)
RECURSIVE CopyFaces_copyFirst(_, _, _, _, _)
CopyFaces_copyFirst(dst, src, i, srcChannel, dstChannel) ==
    IF i > Len(dst) THEN [arr |-> dst, ret |-> "true", why |-> "copied"]
    ELSE IF ~Populated(dst[i]) \/ ~Populated(src[i])
    THEN [arr |-> dst, ret |-> "false", why |-> "null"]
    ELSE IF src[i].w # dst[i].w \/ src[i].h # dst[i].h
    THEN [arr |-> [dst EXCEPT ![i].ch[dstChannel + 1] =
                      [k \in 1..Len(@) |-> src[i].ch[srcChannel + 1][((k - 1) % Len(src[i].ch[1])) + 1]]],
          ret |-> "false", why |-> "size"]
    ELSE CopyFaces_copyFirst([dst EXCEPT ![i].ch[dstChannel + 1] = src[i].ch[srcChannel + 1]],
                   src, i + 1, srcChannel, dstChannel)

\* TexImage.cpp:1161-1181: the loop over the faces, from face i on.
RECURSIVE CopyFaces(_, _, _, _, _)
CopyFaces(dst, src, i, srcChannel, dstChannel) ==
    IF i > Len(dst) THEN [arr |-> dst, ret |-> "true", why |-> "copied"]
    ELSE IF ~Populated(dst[i]) \/ ~Populated(src[i])
    THEN [arr |-> dst, ret |-> "false", why |-> "null"]
    ELSE IF src[i].w # dst[i].w \/ src[i].h # dst[i].h
    THEN [arr |-> dst, ret |-> "false", why |-> "size"]
    ELSE CopyFaces([dst EXCEPT ![i].ch[dstChannel + 1] = src[i].ch[srcChannel + 1]],
                   src, i + 1, srcChannel, dstChannel)

copyChannel(h, srcImage, srcChannel, dstChannel) ==
    /\ ~fault /\ Valid(h) /\ Valid(srcImage)
    /\ IF Len(P(h).imageArray) # Len(P(srcImage).imageArray)
       THEN Unchanged("copyChannel", h, "false", "faceCount")
       ELSE /\ CanDetach(h)
            /\ LET r == CopyFaces(P(h).imageArray, P(srcImage).imageArray, 1,
                                  srcChannel, dstChannel)
               IN  /\ heap' = [DetachHeap(h) EXCEPT ![DetachedPid(h)].imageArray = r.arr]
                   /\ last' = Call("copyChannel", h, r.ret, r.why)
            /\ m' = DetachM(h)
            /\ UNCHANGED <<fault, leaked, stale>>

(***************************************************************************)
(* rootMeanSquaredError_rgb, rootMeanSquaredError_alpha.                   *)
(***************************************************************************)
\* A face holds componentNum * width * height floats, the four channels one
\* after the other; FloatImage::pixel(idx) is the idx-th of them.
MemSize(img) == 4 * img.w * img.h

PixelAt(img, idx) == img.ch[(idx \div (img.w * img.h)) + 1][(idx % (img.w * img.h)) + 1]

\* The index the metrics hand to pixel() for pixel i of channel c.
RmseIndex(i, count, c) == 4 * i + count * c

\* The channels a metric reads: r, g, b and a, or a alone.
RmseChannels(metric) == IF metric = "rgb" THEN 0..3 ELSE {3}

\* Every read of one face pair: the channel, the pixel and the index read,
\* from img and from ref alike.
RmseReads(metric, count) ==
    {[c |-> c, i |-> i, idx |-> RmseIndex(i, count, c)] :
        c \in RmseChannels(metric), i \in 0..(count - 1)}

\* Some read of the face pair lies outside the memory of img or of ref.
RmseOutOfBounds(metric, img, ref) ==
    \E r \in RmseReads(metric, img.w * img.h) :
        r.idx >= MemSize(img) \/ r.idx >= MemSize(ref)

\* What one turn of the inner loop adds to mse.  Values are in units of
\* 1/255; the Transparency branch multiplies by a1 and leaves the division
\* by 255.0 to the unit.
RmseTerm(metric, img, ref, i, count, alphaMode) ==
    LET d(c) == PixelAt(img, RmseIndex(i, count, c)) - PixelAt(ref, RmseIndex(i, count, c))
        a1 == PixelAt(ref, RmseIndex(i, count, 3))
    IN  IF metric = "alpha"
        THEN d(3) * d(3)
        ELSE IF alphaMode = "AlphaMode_Transparency"
             THEN (d(0) * d(0) + d(1) * d(1) + d(2) * d(2)) * a1
             ELSE d(0) * d(0) + d(1) * d(1) + d(2) * d(2)

RECURSIVE RmsePixels(_, _, _, _, _, _)
RmsePixels(metric, img, ref, i, count, alphaMode) ==
    IF i < count
    THEN RmseTerm(metric, img, ref, i, count, alphaMode)
         + RmsePixels(metric, img, ref, i + 1, count, alphaMode)
    ELSE 0

\* The loop over the faces, from face f on.  acc carries mse, totalCount and
\* what was read so far; a NULL face on either side ends the loop with
\* FLT_MAX.  Once a read has left the memory of a face the sum is no longer
\* defined and is not carried on.
RECURSIVE RmseFaces(_, _, _, _, _, _)
RmseFaces(metric, imgs, refs, f, alphaMode, acc) ==
    IF f > Len(imgs)
    THEN [acc EXCEPT !.ret = "value", !.accepted = TRUE]
    ELSE IF ~Populated(imgs[f]) \/ ~Populated(refs[f])
    THEN [acc EXCEPT !.ret = "FLT_MAX"]
    ELSE LET img == imgs[f]
             ref == refs[f]
             count == img.w * img.h
             oob == acc.oob \/ RmseOutOfBounds(metric, img, ref)
         IN  RmseFaces(metric, imgs, refs, f + 1, alphaMode,
                 [acc EXCEPT !.totalCount = @ + count,
                             !.counts = Append(@, count),
                             !.refCounts = Append(@, ref.w * ref.h),
                             !.reads = Append(@, RmseReads(metric, count)),
                             !.oob = oob,
                             !.mse = IF oob THEN 0
                                     ELSE @ + RmsePixels(metric, img, ref, 0, count, alphaMode)])

RmseStart(metric, self) ==
    [done |-> TRUE, metric |-> metric, self |-> self, ret |-> "FLT_MAX",
     accepted |-> FALSE, mse |-> 0, totalCount |-> 0, counts |-> <<>>,
     refCounts |-> <<>>, reads |-> <<>>, oob |-> FALSE]

\* What a sum over floats read outside the image can come to.
GarbageSums == {0, 1}

rootMeanSquaredError(metric, op, h, reference) ==
    /\ ~fault /\ Valid(h) /\ Valid(reference)
    /\ UNCHANGED <<heap, m, leaked, stale>>
    /\ IF Len(P(h).imageArray) # Len(P(reference).imageArray)
       THEN /\ pout' = RmseStart(metric, m[h] = m[reference])
            /\ last' = Call(op, h, "FLT_MAX", "faceCount")
            /\ UNCHANGED fault
       ELSE LET r == RmseFaces(metric, P(h).imageArray, P(reference).imageArray, 1,
                               P(reference).alphaMode,
                               RmseStart(metric, m[h] = m[reference]))
            IN  IF r.oob
                THEN \/ /\ fault' = TRUE
                        /\ pout' = r
                        /\ last' = Call(op, h, "void", "fault")
                     \/ /\ \E g \in GarbageSums : pout' = [r EXCEPT !.mse = g]
                        /\ last' = Call(op, h, r.ret, "garbage")
                        /\ UNCHANGED fault
                ELSE /\ pout' = r
                     /\ last' = Call(op, h, r.ret, IF r.accepted THEN "compared" ELSE "nullFace")
                     /\ UNCHANGED fault

rootMeanSquaredError_rgb(h, reference) ==
    rootMeanSquaredError("rgb", "rootMeanSquaredError_rgb", h, reference)

rootMeanSquaredError_alpha(h, reference) ==
    rootMeanSquaredError("alpha", "rootMeanSquaredError_alpha", h, reference)

(***************************************************************************)
(* What the caller supplies.                                               *)
(***************************************************************************)
\* ImageIO::loadFloat: a w x h image of four channels, or NULL.
TestImage(w, h) ==
    FloatImage(w, h, [c \in 1..4 |-> [k \in 1..(w * h) |-> IF (k + c) % 2 = 0 THEN 255 ELSE 0]])

LoadableImages == {TestImage(w, h) : w \in 1..MaxDim, h \in 1..MaxDim}

Indices == -1..6

\* The face indices of a cube, for calls that address a face that exists.
FaceIndices == 0..5

NoCall == Call("none", "a", "void", "init")
NoMip == [w0 |-> 0, h0 |-> 0, calls |-> 0, failed |-> FALSE]
NoInput == [kind |-> "none"]
NoOutput == [done |-> FALSE]

(***************************************************************************)
(* Spec: the geometry of one texture a: its type, its faces and their      *)
(* sizes under load, setTextureType, both resizes, buildNextMipmap and     *)
(* setImage2D, and what width, height and countMipmaps return.             *)
(***************************************************************************)
InitTextures(s) ==
    /\ heap = [p \in PIds |-> NewPrivate]
    /\ m = [h \in Handles |-> IF h = "a" THEN 1 ELSE IF h = "b" THEN 2 ELSE 0]
    /\ fault = FALSE
    /\ leaked = FALSE
    /\ stale = FALSE
    /\ last = NoCall
    /\ scn = s
    /\ mip = NoMip
    /\ pin = NoInput
    /\ pout = NoOutput

Init == InitTextures("geometry")

Next ==
    \/ \E v \in TextureTypes : setTextureType("a", v) /\ UNCHANGED aux
    \/ \E img \in LoadableImages \cup {NULL} : load("a", img) /\ UNCHANGED aux
    \/ \E w, hh \in 1..MaxDim, f \in ResizeFilters : resize("a", w, hh, f) /\ UNCHANGED aux
    \/ \E e \in 0..MaxDim, r \in RoundModes, f \in ResizeFilters :
          resize_maxExtent("a", e, r, f) /\ UNCHANGED aux
    \/ \E f \in MipmapFilters : buildNextMipmap("a", f) /\ UNCHANGED aux
    \/ width("a") /\ UNCHANGED aux
    \/ height("a") /\ UNCHANGED aux
    \/ TexImage_countMipmaps("a") /\ UNCHANGED aux
    \/ \E w, hh \in 1..MaxDim, idx \in FaceIndices :
          setImage2D("a", "InputFormat_RGBA_32F", w, hh, idx, "red") /\ UNCHANGED aux
    \/ \E w, hh \in 1..MaxDim, idx \in FaceIndices :
          setImage2D_planar("a", "InputFormat_BGRA_8UB", w, hh, idx, "red") /\ UNCHANGED aux
    \/ \E w, hh \in 1..MaxDim, idx \in FaceIndices :
          setImage2D_compressed("a", "Format_BC1", "Decoder_Reference", w, hh, idx, "red")
          /\ UNCHANGED aux

Spec == Init /\ [][Next]_vars

(***************************************************************************)
(* SpecIngest: setImage2D on a texture a whose faces come from load and    *)
(* setTextureType.  The arguments of the call (overload, format, size,     *)
(* face index, buffer) are drawn once, in pin.                             *)
(***************************************************************************)
IngestInputs ==
    {[kind |-> "ingest", overload |-> o, format |-> fmt, decoder |-> "Decoder_Reference",
      w |-> w, h |-> hh, idx |-> idx, p |-> p] :
        o \in {"interleaved", "planar"}, fmt \in InputFormats,
        w \in 1..MaxDim, hh \in 1..MaxDim, idx \in Indices, p \in Patterns}
    \cup
    {[kind |-> "ingest", overload |-> "compressed", format |-> fmt, decoder |-> d,
      w |-> w, h |-> hh, idx |-> idx, p |-> p] :
        fmt \in Formats, d \in Decoders,
        w \in 1..MaxDim, hh \in 1..MaxDim, idx \in Indices, p \in Patterns}

InitIngest ==
    /\ heap = [p \in PIds |-> NewPrivate]
    /\ m = [h \in Handles |-> IF h = "a" THEN 1 ELSE IF h = "b" THEN 2 ELSE 0]
    /\ fault = FALSE
    /\ leaked = FALSE
    /\ stale = FALSE
    /\ last = NoCall
    /\ scn = "ingest"
    /\ mip = NoMip
    /\ pin \in IngestInputs
    /\ pout = NoOutput

IngestInterleaved ==
    /\ pin.overload = "interleaved"
    /\ setImage2D("a", pin.format, pin.w, pin.h, pin.idx, pin.p)
    /\ UNCHANGED aux

IngestPlanar ==
    /\ pin.overload = "planar"
    /\ setImage2D_planar("a", pin.format, pin.w, pin.h, pin.idx, pin.p)
    /\ UNCHANGED aux

IngestCompressed ==
    /\ pin.overload = "compressed"
    /\ setImage2D_compressed("a", pin.format, pin.decoder, pin.w, pin.h, pin.idx, pin.p)
    /\ UNCHANGED aux

NextIngest ==
    \/ \E v \in TextureTypes : setTextureType("a", v) /\ UNCHANGED aux
    \/ \E img \in LoadableImages : load("a", img) /\ UNCHANGED aux
    \/ IngestInterleaved
    \/ IngestPlanar
    \/ IngestCompressed

SpecIngest == InitIngest /\ [][NextIngest]_vars

(***************************************************************************)
(* SpecCopy: copyChannel into a from b, or from a itself.  The two channel *)
(* numbers of the calls are drawn once, in pin.                            *)
(***************************************************************************)
CopyInputs ==
    {[kind |-> "copy", srcChannel |-> sc, dstChannel |-> dc] :
        sc \in Channels, dc \in Channels}

InitCopy ==
    /\ heap = [p \in PIds |-> NewPrivate]
    /\ m = [h \in Handles |-> IF h = "a" THEN 1 ELSE IF h = "b" THEN 2 ELSE 0]
    /\ fault = FALSE
    /\ leaked = FALSE
    /\ stale = FALSE
    /\ last = NoCall
    /\ scn = "copy"
    /\ mip = NoMip
    /\ pin \in CopyInputs
    /\ pout = NoOutput

NextCopy ==
    \/ \E h \in {"a", "b"}, v \in TextureTypes : setTextureType(h, v) /\ UNCHANGED aux
    \/ \E h \in {"a", "b"}, img \in LoadableImages : load(h, img) /\ UNCHANGED aux
    \/ \E src \in {"a", "b"} :
          copyChannel("a", src, pin.srcChannel, pin.dstChannel) /\ UNCHANGED aux

SpecCopy == InitCopy /\ [][NextCopy]_vars

(***************************************************************************)
(* SpecShare: handles that are constructed, copied, assigned and           *)
(* destroyed, and written through.  A behaviour draws its mutators from    *)
(* one family (scn), so that families add up instead of multiplying.       *)
(***************************************************************************)
Gammas == {1, 2}
Swizzles == {<<0, 1, 2, 3>>, <<2, 1, 0, 3>>}
ScaleBiases == {<<1, 0>>, <<0, 255>>}
Families == {"type", "wrap", "alpha", "normal", "resize", "mipmap", "gamma",
             "swizzle", "scaleBias", "ingest"}
WithFaces == Families \ {"wrap", "alpha", "normal"}

InitShare ==
    /\ heap = [p \in PIds |-> FreedPrivate]
    /\ m = [h \in Handles |-> 0]
    /\ fault = FALSE
    /\ leaked = FALSE
    /\ stale = FALSE
    /\ last = NoCall
    /\ scn \in Families
    /\ mip = NoMip
    /\ pin = NoInput
    /\ pout = NoOutput

NextShare ==
    \/ \E h \in Handles : TexImage(h) /\ UNCHANGED aux
    \/ \E h, tex \in Handles : TexImageCopy(h, tex) /\ UNCHANGED aux
    \/ \E h \in Handles : Destroy(h) /\ UNCHANGED aux
    \/ \E h, tex \in Handles : Assign(h, tex) /\ UNCHANGED aux
    \/ \E h \in Handles : UseAfterFree(h) /\ UNCHANGED aux
    \/ scn = "type" /\ \E h \in Handles, v \in TextureTypes : setTextureType(h, v) /\ UNCHANGED aux
    \/ scn = "wrap" /\ \E h \in Handles, v \in WrapModes : setWrapMode(h, v) /\ UNCHANGED aux
    \/ scn = "alpha" /\ \E h \in Handles, v \in AlphaModes : setAlphaMode(h, v) /\ UNCHANGED aux
    \/ scn = "normal" /\ \E h \in Handles, v \in BOOLEAN : setNormalMap(h, v) /\ UNCHANGED aux
    \/ scn \in WithFaces /\ \E h \in Handles : load(h, TestImage(MaxDim, 1)) /\ UNCHANGED aux
    \/ scn = "resize" /\ \E h \in Handles, w \in {1, MaxDim}, f \in ResizeFilters :
                            resize(h, w, 1, f) /\ UNCHANGED aux
    \/ scn = "mipmap" /\ \E h \in Handles, f \in MipmapFilters : buildNextMipmap(h, f) /\ UNCHANGED aux
    \/ scn = "gamma" /\ \E h \in Handles, g \in Gammas : toLinear(h, g) /\ UNCHANGED aux
    \/ scn = "gamma" /\ \E h \in Handles, g \in Gammas : toGamma(h, g) /\ UNCHANGED aux
    \/ scn = "swizzle" /\ \E h \in Handles, sw \in Swizzles : swizzle(h, sw) /\ UNCHANGED aux
    \/ scn = "scaleBias" /\ \E h \in Handles, sb \in ScaleBiases :
                               scaleBias(h, 0, sb[1], sb[2]) /\ UNCHANGED aux
    \/ scn = "ingest" /\ \E h \in Handles, w \in {1, MaxDim}, idx \in {0, 1} :
                            setImage2D_planar(h, "InputFormat_BGRA_8UB", w, 1, idx, "red") /\ UNCHANGED aux

SpecShare == InitShare /\ [][NextShare]_vars

(***************************************************************************)
(* SpecMip: a texture loaded with a w0 x h0 image, then buildNextMipmap    *)
(* called again and again; mip counts the calls that returned true.        *)
(***************************************************************************)
CubeFaces(img) == <<img, NULL, NULL, NULL, NULL, NULL>>

InitMip ==
    \E w0 \in 1..MaxMipDim, h0 \in 1..MaxMipDim, am \in AlphaModes, t \in TextureTypes :
        /\ heap = [p \in PIds |->
                     IF p = 1
                     THEN [NewPrivate EXCEPT
                             !.type = t, !.alphaMode = am,
                             !.imageArray = IF t = "TextureType_2D"
                                            THEN <<TestImage(w0, h0)>>
                                            ELSE CubeFaces(TestImage(w0, h0))]
                     ELSE FreedPrivate]
        /\ m = [h \in Handles |-> IF h = "a" THEN 1 ELSE 0]
        /\ fault = FALSE
        /\ leaked = FALSE
        /\ stale = FALSE
    /\ stale = FALSE
        /\ last = NoCall
        /\ scn = "mip"
        /\ mip = [w0 |-> w0, h0 |-> h0, calls |-> 0, failed |-> FALSE]
        /\ pin = NoInput
        /\ pout = NoOutput

NextMip ==
    /\ \E f \in MipmapFilters : buildNextMipmap("a", f)
    /\ mip' = [mip EXCEPT !.calls = IF last'.ret = "true" /\ ~mip.failed THEN @ + 1 ELSE @,
                          !.failed = @ \/ last'.ret = "false"]
    /\ UNCHANGED <<scn, pin, pout>>

SpecMip == InitMip /\ [][NextMip]_vars

(***************************************************************************)
(* SpecPow: the power-of-two helpers and the size computation of           *)
(* resize(maxExtent, roundMode, filter), applied to drawn inputs.          *)
(***************************************************************************)
Pow2Inputs == {[kind |-> "pow2", v |-> v] : v \in 1..MaxV}

ResizeInputs ==
    {[kind |-> "resize", w |-> w, h |-> h, maxExtent |-> e, roundMode |-> r, type |-> t] :
        w \in 1..MaxSide, h \in 1..MaxSide, e \in 0..MaxSide, r \in RoundModes,
        t \in TextureTypes}

InitPow ==
    /\ heap = [p \in PIds |-> FreedPrivate]
    /\ m = [h \in Handles |-> 0]
    /\ fault = FALSE
    /\ leaked = FALSE
    /\ stale = FALSE
    /\ last = NoCall
    /\ scn = "pow"
    /\ mip = NoMip
    /\ pin \in Pow2Inputs \cup ResizeInputs
    /\ pout = NoOutput

ApplyPow2 ==
    /\ pin.kind = "pow2" /\ ~pout.done
    /\ pout' = [done |-> TRUE,
                next |-> nextPowerOfTwo(pin.v),
                previous |-> previousPowerOfTwo(pin.v),
                nearest |-> nearestPowerOfTwo(pin.v)]
    /\ UNCHANGED <<heap, m, fault, leaked, stale, last, scn, mip, pin>>

ApplyResize ==
    /\ pin.kind = "resize" /\ ~pout.done
    /\ pout' = [done |-> TRUE,
                scaled |-> ScaleExtents(<<pin.w, pin.h>>,
                                        EffectiveExtent(pin.maxExtent, pin.roundMode)),
                target |-> ResizeTarget(<<pin.w, pin.h>>, pin.type, pin.maxExtent,
                                        pin.roundMode)]
    /\ UNCHANGED <<heap, m, fault, leaked, stale, last, scn, mip, pin>>

NextPow == ApplyPow2 \/ ApplyResize

SpecPow == InitPow /\ [][NextPow]_vars

(***************************************************************************)
(* SpecRmse: the two metrics of a against b, or against a itself, over     *)
(* loaded faces of every size, with the faces of a changed by scaleBias.   *)
(* The metric and the reference of the calls are drawn once, in pin.       *)
(***************************************************************************)
RmseInputs ==
    {[kind |-> "rmse", metric |-> mt, reference |-> ref] :
        mt \in {"rgb", "alpha"}, ref \in {"a", "b"}}

InitRmse ==
    /\ heap = [p \in PIds |-> NewPrivate]
    /\ m = [h \in Handles |-> IF h = "a" THEN 1 ELSE IF h = "b" THEN 2 ELSE 0]
    /\ fault = FALSE
    /\ leaked = FALSE
    /\ stale = FALSE
    /\ last = NoCall
    /\ scn = "rmse"
    /\ mip = NoMip
    /\ pin \in RmseInputs
    /\ pout = NoOutput

ApplyRmse ==
    /\ IF pin.metric = "rgb"
       THEN rootMeanSquaredError_rgb("a", pin.reference)
       ELSE rootMeanSquaredError_alpha("a", pin.reference)
    /\ UNCHANGED <<scn, mip, pin>>

\* The textures are built first and compared afterwards: the metrics are const
\* members, so the pair that was compared stays as it is.
BuildRmse ==
    /\ ~pout.done
    /\ \/ \E h \in {"a", "b"}, img \in LoadableImages : load(h, img)
       \/ \E h \in {"a", "b"}, v \in TextureTypes : setTextureType(h, v)
       \/ \E h \in {"a", "b"}, v \in AlphaModes : setAlphaMode(h, v)
       \/ \E c \in {0, 3} : scaleBias("a", c, 0, 255)
    /\ UNCHANGED aux

NextRmse == BuildRmse \/ ApplyRmse

SpecRmse == InitRmse /\ [][NextRmse]_vars

(***************************************************************************)
(* Properties.                                                             *)
(***************************************************************************)
\* What a caller can observe of a payload: everything but the holder count.
Obs(p) ==
    [type |-> p.type, wrapMode |-> p.wrapMode, alphaMode |-> p.alphaMode,
     isNormalMap |-> p.isNormalMap, imageArray |-> p.imageArray]

Mutators ==
    {"setTextureType", "setWrapMode", "setAlphaMode", "setNormalMap", "load",
     "resize", "resize_maxExtent", "buildNextMipmap", "toLinear", "toGamma",
     "swizzle", "scaleBias", "setImage2D", "setImage2D_planar",
     "setImage2D_compressed", "copyChannel"}

\* C1: copy independence.  When handles a and b hold the same payload (b was
\* copied or assigned from a, or a from b, and no handle has ever been left
\* dangling), a mutating operation called on b leaves everything observable
\* through a (type, wrap mode, alpha mode, normal-map flag, the faces, their
\* sizes and pixel values) as it was before the call.
C1_CopyIndependence ==
    [][\A a, b \in Handles :
          (/\ a # b /\ ~stale /\ ~fault
           /\ Valid(a) /\ m[b] = m[a]
           /\ last'.op \in Mutators /\ last'.h = b /\ ~fault')
          => /\ m'[a] = m[a]
             /\ Obs(heap'[m'[a]]) = Obs(heap[m[a]])]_vars

\* C2: in every reachable state the face sequence of a texture is as long
\* as its type mandates: 1 for TextureType_2D, 6 for TextureType_Cube.
C2_FaceCount ==
    \A h \in Handles :
        Valid(h) => Len(P(h).imageArray) = FaceCountOf(P(h).type)

\* The calls that the no-op guards are about, on handle h.
NoOpCall(h) ==
    \/ setTextureType(h, P(h).type)
    \/ setWrapMode(h, P(h).wrapMode)
    \/ setAlphaMode(h, P(h).alphaMode)
    \/ setNormalMap(h, P(h).isNormalMap)
    \/ toLinear(h, 1)
    \/ toGamma(h, 1)
    \/ \E c \in Channels : scaleBias(h, c, 1, 0)
    \/ swizzle(h, <<0, 1, 2, 3>>)
    \/ /\ Len(P(h).imageArray) > 0
       /\ Populated(P(h).imageArray[1])
       /\ \E f \in ResizeFilters :
             resize(h, P(h).imageArray[1].w, P(h).imageArray[1].h, f)

\* C3: a setter called with the value already stored, toLinear(1.0),
\* toGamma(1.0), scaleBias(c, 1, 0), swizzle(0, 1, 2, 3) and resize to the
\* size face 0 already has change no payload (no pixel, no metadata, no
\* holder count) and clone nothing: every handle points at the payload it
\* pointed at before, so a handle that shared its payload still shares it.
C3_NoOpGuards ==
    [][\A h \in Handles :
          (last'.h = h /\ Valid(h) /\ ~fault /\ NoOpCall(h))
          => (heap' = heap /\ m' = m /\ ~fault')]_vars

\* A no-op call has just returned on a handle whose payload detach() would
\* have cloned (holder count above 1).
C3_Witness ==
    /\ last.why = "same" /\ last.op \in {"toGamma", "resize", "setTextureType"}
    /\ Valid(last.h) /\ Shared(last.h) /\ ~stale
    /\ \E h2 \in Handles : h2 # last.h /\ m[h2] = m[last.h]

\* v halved k times, never below 1.
RECURSIVE HalveN(_, _)
HalveN(v, k) == IF k = 0 THEN v ELSE HalveN(Max(1, v \div 2), k - 1)

\* C4: the mip chain of a w0 x h0 texture.  After k successful calls of
\* buildNextMipmap every populated face is HalveN(w0, k) x HalveN(h0, k);
\* a call on faces that are not yet 1x1 returns true and halves them, the
\* call at 1x1 returns false and changes nothing; no more than
\* countMipmaps(w0, h0, 1) - 1 calls return true, after that many the faces
\* are 1x1, and the first failure comes after exactly that many.
C4_MipChain ==
    /\ [](LET n == countMipmaps(mip.w0, mip.h0, 1) - 1
              arr == P("a").imageArray
          IN  /\ mip.calls <= n
              /\ \A i \in 1..Len(arr) :
                    Populated(arr[i]) =>
                        /\ arr[i].w = HalveN(mip.w0, mip.calls)
                        /\ arr[i].h = HalveN(mip.h0, mip.calls)
              /\ mip.calls = n => (arr[1].w = 1 /\ arr[1].h = 1)
              /\ mip.failed => mip.calls = n)
    /\ [][\A f \in MipmapFilters :
             (~fault /\ buildNextMipmap("a", f)) =>
                 LET img == P("a").imageArray[1]
                 IN  IF img.w = 1 /\ img.h = 1
                     THEN last'.ret = "false" /\ heap' = heap /\ m' = m
                     ELSE /\ last'.ret = "true"
                          /\ heap'[m'["a"]].imageArray[1].w = Max(1, img.w \div 2)
                          /\ heap'[m'["a"]].imageArray[1].h = Max(1, img.h \div 2)]_vars

\* A chain of at least two levels on a texture that is not square has run
\* to its end: buildNextMipmap has returned false.
C4_Witness ==
    /\ mip.failed /\ last.ret = "false" /\ mip.calls >= 2 /\ mip.w0 # mip.h0
    /\ mip.calls = countMipmaps(mip.w0, mip.h0, 1) - 1

\* The three causes for which setImage2D turns a call away, read off the
\* state before the call.
IndexRejected(h, idx) == idx < 0 \/ idx >= Len(P(h).imageArray)

SizeRejected(h, w, hh, idx) ==
    /\ ~IndexRejected(h, idx)
    /\ Populated(P(h).imageArray[idx + 1])
    /\ (P(h).imageArray[idx + 1].w # w \/ P(h).imageArray[idx + 1].h # hh)

FormatRejected(format) == format \notin {"Format_BC1", "Format_BC2", "Format_BC3"}

Rejection == last'.ret = "false" /\ heap' = heap /\ m' = m /\ ~fault'

\* C5: each of the three setImage2D overloads returns false when the face
\* index is negative or not below the face count, when (w, h) is not the
\* size of the destination face, and (compressed overload) when the format
\* is not BC1, BC2 or BC3; in each case nothing has been written: no pixel,
\* no face, no metadata, no payload has changed.
C5_Rejection ==
    [][(/\ ~fault /\ Valid("a")
        /\ \/ IndexRejected("a", pin.idx)
           \/ SizeRejected("a", pin.w, pin.h, pin.idx)
           \/ pin.overload = "compressed" /\ FormatRejected(pin.format)
        /\ (IngestInterleaved \/ IngestPlanar \/ IngestCompressed))
       => Rejection]_vars

\* A call on a populated face of another size has just been turned away.
C5_Witness ==
    /\ last.op = "setImage2D_planar" /\ last.ret = "false" /\ last.why = "size"
    /\ pin.idx = 0 /\ Populated(P("a").imageArray[1])
    /\ P("a").imageArray[1].w # P("a").imageArray[1].h

\* The first pair of faces that stops copyChannel is one of two populated
\* faces of different sizes.
SizeMismatchFirst(dst, src) ==
    \E i \in 1..Len(dst) :
        /\ \A j \in 1..i :
              Populated(dst[j]) /\ Populated(src[j])
        /\ \A j \in 1..(i - 1) :
              dst[j].w = src[j].w /\ dst[j].h = src[j].h
        /\ (dst[i].w # src[i].w \/ dst[i].h # src[i].h)

C7_EightBitScaling ==
    [][(/\ ~fault /\ Valid("a")
        /\ pin.format = "InputFormat_BGRA_8UB"
        /\ (IngestInterleaved \/ IngestPlanar)
        /\ last'.ret = "true")
       => LET face == heap'[m'["a"]].imageArray[pin.idx + 1]
          IN  /\ Populated(face)
              /\ \A i \in 1..(pin.w * pin.h) :
                    /\ face.ch[1][i] = Color32(pin.p, i - 1).r
                    /\ face.ch[2][i] = Color32(pin.p, i - 1).g
                    /\ face.ch[3][i] = Color32(pin.p, i - 1).b
                    /\ face.ch[4][i] = Color32(pin.p, i - 1).a
                    /\ \A c \in 1..4 : face.ch[c][i] \in 0..255]_vars

RECURSIVE IsPow2(_)
IsPow2(n) == n = 1 \/ (n > 1 /\ n % 2 = 0 /\ IsPow2(n \div 2))

\* The largest power of two that is not above e (0 when e is 0).
LargestPow2AtMost(e) ==
    IF e < 1 THEN 0 ELSE CHOOSE q \in 1..e : IsPow2(q) /\ 2 * q > e

\* The case C8 is about: resize(maxExtent, roundMode, filter) has computed
\* the size of a w x h face (both at least 1) with max(w, h) > maxExtent > 0.
ScalingCase ==
    /\ pin.kind = "resize" /\ pout.done
    /\ pin.maxExtent > 0 /\ Max(pin.w, pin.h) > pin.maxExtent

\* C8 as stated: for every round mode the scaling step yields a larger side
\* equal to the maxExtent the caller gave and a smaller side of
\* max(1, floor(side * maxExtent / max(w, h))); under RoundMode_None these
\* are the final dimensions.
C8_AsStated ==
    ScalingCase =>
        LET maxwh == Max(pin.w, pin.h)
        IN  /\ Max(pout.scaled[1], pout.scaled[2]) = pin.maxExtent
            /\ pout.scaled = <<Max(1, (pin.w * pin.maxExtent) \div maxwh),
                               Max(1, (pin.h * pin.maxExtent) \div maxwh)>>
            /\ pin.roundMode = "RoundMode_None" => pout.target = pout.scaled

\* C8, amended: the larger side after the scaling step equals the effective
\* extent e: maxExtent itself under RoundMode_None, the largest power of two
\* not above maxExtent under the three other round modes; each side is
\* max(1, floor(side * e / max(w, h))).  Under RoundMode_None these are the
\* final dimensions of a 2D texture; a Cube gets e x e.
C8_EffectiveExtent ==
    ScalingCase =>
        LET maxwh == Max(pin.w, pin.h)
            e == IF pin.roundMode = "RoundMode_None" THEN pin.maxExtent
                 ELSE LargestPow2AtMost(pin.maxExtent)
        IN  /\ Max(pout.scaled[1], pout.scaled[2]) = e
            /\ pout.scaled = <<Max(1, (pin.w * e) \div maxwh),
                               Max(1, (pin.h * e) \div maxwh)>>
            /\ pin.roundMode = "RoundMode_None" =>
                  pout.target = IF pin.type = "TextureType_Cube" THEN <<e, e>>
                                ELSE pout.scaled

\* A 5 x 2 face resized to a maxExtent of 3 with rounding to the nearest
\* power of two: the scaling step has produced 2 x 1.
C8_Witness ==
    /\ ScalingCase
    /\ pin.roundMode = "RoundMode_ToNearestPowerOfTwo"
    /\ pin.maxExtent = 3 /\ pin.w = 5 /\ pin.h = 2
    /\ pout.scaled = <<2, 1>>

Dist(a, b) == IF a >= b THEN a - b ELSE b - a

\* C9: for v >= 1, previousPowerOfTwo(v) = nextPowerOfTwo(v + 1) / 2 is the
\* largest power of two not above v; nearestPowerOfTwo(v) is whichever of
\* nextPowerOfTwo(v) and previousPowerOfTwo(v) is closer to v, the next one
\* when both are as close; it is a power of two, and v when v is one.
C9_PowerOfTwo ==
    (pin.kind = "pow2" /\ pout.done) =>
        LET v == pin.v
        IN  /\ pout.previous = nextPowerOfTwo(v + 1) \div 2
            /\ IsPow2(pout.previous) /\ pout.previous <= v /\ 2 * pout.previous > v
            /\ IsPow2(pout.next) /\ pout.next >= v /\ pout.next < 2 * v
            /\ pout.nearest \in {pout.next, pout.previous}
            /\ Dist(pout.nearest, v) <= Dist(pout.next, v)
            /\ Dist(pout.nearest, v) <= Dist(pout.previous, v)
            /\ Dist(pout.next, v) = Dist(pout.previous, v) => pout.nearest = pout.next
            /\ IsPow2(pout.nearest)
            /\ IsPow2(v) => pout.nearest = v

\* The tie of the claim: 6 is 2 away from 4 and from 8, and 8 is returned.
C9_Witness ==
    /\ pin.kind = "pow2" /\ pout.done /\ pin.v = 6
    /\ pout.previous = 4 /\ pout.next = 8 /\ pout.nearest = 8

\* C10: in every reachable state every populated face of a Cube texture is
\* square, and all populated faces of a texture have the same width and the
\* same height.
C10_CubeSquare ==
    \A h \in Handles :
        Valid(h) =>
            LET arr == P(h).imageArray
            IN  /\ P(h).type = "TextureType_Cube" =>
                      \A i \in 1..Len(arr) : Populated(arr[i]) => arr[i].w = arr[i].h
                /\ \A i, j \in 1..Len(arr) :
                      (Populated(arr[i]) /\ Populated(arr[j])) =>
                          (arr[i].w = arr[j].w /\ arr[i].h = arr[j].h)

\* C11: for a w x h face 0 (w, h >= 1), every maxExtent >= 1 and each of
\* the round modes ToNext, ToNearest and ToPrevious, for a 2D and for a Cube
\* texture, the size that resize(maxExtent, roundMode, filter) hands to
\* resize(w, h, filter) has two sides that are powers of two, neither of
\* them above maxExtent.
C11_RoundedWithinExtent ==
    (/\ pin.kind = "resize" /\ pout.done
     /\ pin.maxExtent >= 1 /\ pin.roundMode # "RoundMode_None")
    => /\ IsPow2(pout.target[1]) /\ IsPow2(pout.target[2])
       /\ pout.target[1] <= pin.maxExtent
       /\ pout.target[2] <= pin.maxExtent

\* A 9 x 7 face and a maxExtent of 8 with rounding to the next power of two:
\* the scaled side 6 has been rounded upward to 8, which is not above 8.
C11_Witness ==
    /\ pin.kind = "resize" /\ pout.done
    /\ pin.roundMode = "RoundMode_ToNextPowerOfTwo"
    /\ pin.w = 9 /\ pin.h = 7 /\ pin.maxExtent = 8
    /\ pout.scaled = <<8, 6>> /\ pout.target = <<8, 8>>

\* The number of handles that point at payload p.
HolderCount(p) == Cardinality({h \in Handles : m[h] = p})

\* The handles point at live payloads only.
NoHandleDangles == \A h \in Handles : m[h] # 0 => heap[m[h]].live

\* A call on h has gone through detach() and cloned: h has a new payload
\* with holder count 1, and the payload it left has one holder less.
DetachCounts ==
    \A h \in Handles :
        (last'.op \in Mutators /\ last'.h = h /\ Valid(h) /\ m'[h] # m[h])
        => /\ heap'[m'[h]].refCount = 1
           /\ heap'[m[h]].live
           /\ heap'[m[h]].refCount = heap[m[h]].refCount - 1

\* C12: after any sequence of default construction, copy construction,
\* assignment (a = a included), destruction and mutator calls, the holder
\* count of every live payload is the number of handles pointing at it, a
\* payload is freed exactly when its count drops to 0 (none is lost
\* unfreed, none is freed while a handle points at it), and right after a
\* detach() that cloned, the caller's payload has count 1 and the payload
\* it shared has lost exactly 1.
C12_HolderCount ==
    /\ [](\A p \in PIds : heap[p].live => heap[p].refCount = HolderCount(p))
    /\ [](NoHandleDangles /\ ~leaked)
    /\ [][DetachCounts]_vars

\* Face slot idx of h exists and is unpopulated.
NullFaceAt(h, idx) ==
    /\ idx >= 0 /\ idx < Len(P(h).imageArray)
    /\ ~Populated(P(h).imageArray[idx + 1])

\* This step is one of the listed operations called on a, with the face
\* slot that the operation looks at unpopulated.
CalledOnNullFace ==
    \/ /\ NullFaceAt("a", 0)
       /\ \/ width("a") \/ height("a") \/ TexImage_countMipmaps("a")
          \/ /\ last'.op = "resize"
             /\ \E w, hh \in 1..MaxDim, f \in ResizeFilters : resize("a", w, hh, f)
          \/ /\ last'.op = "resize_maxExtent"
             /\ \E e \in 0..MaxDim, r \in RoundModes, f \in ResizeFilters :
                   resize_maxExtent("a", e, r, f)
          \/ /\ last'.op = "buildNextMipmap"
             /\ \E f \in MipmapFilters : buildNextMipmap("a", f)
    \/ /\ last'.op \in {"setImage2D", "setImage2D_planar", "setImage2D_compressed"}
       /\ \E w, hh \in 1..MaxDim, idx \in FaceIndices, p \in Patterns :
             /\ NullFaceAt("a", idx)
             /\ \/ \E fmt \in InputFormats :
                      \/ setImage2D("a", fmt, w, hh, idx, p)
                      \/ setImage2D_planar("a", fmt, w, hh, idx, p)
                \/ \E fmt \in {"Format_BC1", "Format_BC2", "Format_BC3"}, d \in Decoders :
                      setImage2D_compressed("a", fmt, d, w, hh, idx, p)

\* C13: width, height, countMipmaps, both resizes, buildNextMipmap and the
\* three setImage2D overloads never read the size or the pixels of an
\* unpopulated face slot: called on one they do not crash; width and height
\* return 0, setImage2D returns false and writes nothing, and no face is
\* made out of the absent one.
C13_AbsentFaces ==
    [][(~fault /\ Valid("a") /\ CalledOnNullFace)
       => /\ ~fault'
          /\ last'.op \in {"width", "height"} => last'.val = 0
          /\ last'.op \in {"setImage2D", "setImage2D_planar", "setImage2D_compressed"}
                => (last'.ret = "false" /\ heap' = heap /\ m' = m)
          /\ \A i \in 1..Len(P("a").imageArray) :
                ~Populated(P("a").imageArray[i]) =>
                    (/\ i <= Len(heap'[m'["a"]].imageArray)
                     /\ ~Populated(heap'[m'["a"]].imageArray[i]))]_vars

RECURSIVE SumOf(_)
SumOf(s) == IF s = <<>> THEN 0 ELSE Head(s) + SumOf(Tail(s))

\* C14: the metric reads stay in bounds.  When rootMeanSquaredError_rgb or
\* rootMeanSquaredError_alpha has accepted a pair of textures (equal face
\* counts, every face pair populated), then for every face, of count pixels:
\* every index read lies in [0, 4*count) of the face and inside the
\* reference face, pixel i of channel c is read at its own place c*count + i
\* (so each pixel is compared once per channel with the same pixel of the
\* reference), totalCount is the sum of count over the faces, the call has
\* not crashed, and a texture compared with itself yields 0.
C14_MetricReads ==
    (pin.kind = "rmse" /\ pout.done /\ pout.accepted) =>
        /\ ~fault
        /\ \A f \in 1..Len(pout.reads) : \A r \in pout.reads[f] :
              /\ r.idx >= 0
              /\ r.idx < 4 * pout.counts[f]
              /\ r.idx < 4 * pout.refCounts[f]
              /\ r.idx = r.c * pout.counts[f] + r.i
              /\ r.idx = r.c * pout.refCounts[f] + r.i
        /\ pout.totalCount = SumOf(pout.counts)
        /\ pout.self => pout.mse = 0

====
